---- MODULE Spec2Model ----
(***************************************************************************)
(* Model of bot.py: a Telegram bot that downloads a PDF, extracts its text *)
(* and summarises it chunk by chunk through a completion service.          *)
(*                                                                         *)
(* Texts are TLA+ strings (Len, SubSeq and \o act on them as on Python     *)
(* str).  The bot's Persian message literals are written here by ASCII     *)
(* renderings; each is a distinct constant, as in the source.              *)
(***************************************************************************)
EXTENDS Integers, Sequences, FiniteSets, TLC

(***************************************************************************)
(* Bounds of the model.                                                    *)
(***************************************************************************)
\* longest text given to chunk_text in SpecChunk
MaxLen == 5
\* largest max_chars given to chunk_text in SpecChunk
MaxM == 5
\* number of inbound updates the event loop handles in Spec
NumUpdates == 2

\* max_chars=10_000, the argument summarize_text passes to chunk_text
MAX_CHARS == 10000

Min(a, b) == IF a <= b THEN a ELSE b

(***************************************************************************)
(* chunk_text (bot.py 41-48).  text[start:end] is SubSeq(text,start+1,end) *)
(***************************************************************************)
RECURSIVE chunk_loop(_, _, _, _)
chunk_loop(text, max_chars, start, chunks) ==
    IF start < Len(text)
    THEN LET end == Min(start + max_chars, Len(text))
         IN  chunk_loop(text, max_chars, end, Append(chunks, SubSeq(text, start + 1, end)))
    ELSE chunks

\* mutant: the loop stops before the trailing short fragment
RECURSIVE chunk_loop_drop(_, _, _, _)
chunk_loop_drop(text, max_chars, start, chunks) ==
    IF start + max_chars <= Len(text) /\ start < Len(text)
    THEN LET end == Min(start + max_chars, Len(text))
         IN  chunk_loop_drop(text, max_chars, end, Append(chunks, SubSeq(text, start + 1, end)))
    ELSE chunks

chunk_text_drop(text, max_chars) == chunk_loop_drop(text, max_chars, 0, <<>>)

\* mutant: the slice takes one character too many (end + 1)
RECURSIVE chunk_loop_over(_, _, _, _)
chunk_loop_over(text, max_chars, start, chunks) ==
    IF start < Len(text)
    THEN LET end == Min(start + max_chars + 1, Len(text))
         IN  chunk_loop_over(text, max_chars, end, Append(chunks, SubSeq(text, start + 1, end)))
    ELSE chunks

chunk_text_over(text, max_chars) == chunk_loop_over(text, max_chars, 0, <<>>)

chunk_text(text, max_chars) == chunk_loop(text, max_chars, 0, <<>>)

(***************************************************************************)
(* String helpers: str.strip() and str.join().                             *)
(*                                                                         *)
(* A string literal of this module can hold code points up to U+00FF only, *)
(* so the texts of the model are over that range.  Whitespace is the set   *)
(* str.strip() removes within it: U+0009-000D, U+001C-001F, U+0020, U+0085 *)
(* and U+00A0, in that order below (the control characters other than      *)
(* TAB, LF, FF, CR and the two above U+007F are written raw).  The         *)
(* seventeen whitespace code points above U+00FF that str.strip() also     *)
(* removes (U+1680, U+2000-200A, U+2028, U+2029, U+202F, U+205F, U+3000)   *)
(* cannot occur in a text of the model.                                    *)
(***************************************************************************)
Whitespace == {"\t", "\n", "", "\f", "\r", "", "", "", "", " ", "", " "}

RECURSIVE lstrip(_)
lstrip(s) ==
    IF Len(s) > 0 /\ SubSeq(s, 1, 1) \in Whitespace
    THEN lstrip(SubSeq(s, 2, Len(s)))
    ELSE s

RECURSIVE rstrip(_)
rstrip(s) ==
    IF Len(s) > 0 /\ SubSeq(s, Len(s), Len(s)) \in Whitespace
    THEN rstrip(SubSeq(s, 1, Len(s) - 1))
    ELSE s

strip(s) == rstrip(lstrip(s))

RECURSIVE join(_, _)
join(sep, parts) ==
    IF Len(parts) = 0 THEN ""
    ELSE IF Len(parts) = 1 THEN parts[1]
    ELSE parts[1] \o sep \o join(sep, Tail(parts))

RECURSIVE Concat(_)
Concat(parts) == IF Len(parts) = 0 THEN "" ELSE parts[1] \o Concat(Tail(parts))

RECURSIVE Rep(_, _)
Rep(s, n) ==
    IF n = 0 THEN ""
    ELSE IF n % 2 = 1 THEN s \o Rep(s, n - 1)
    ELSE LET h == Rep(s, n \div 2) IN h \o h

RECURSIVE Strs(_)
Strs(n) == IF n = 0 THEN {""} ELSE Strs(n - 1) \cup {s \o c : s \in Strs(n - 1), c \in {"a", " "}}

(***************************************************************************)
(* Message literals of bot.py (ASCII renderings) and the values the        *)
(* external collaborators can hand back.                                   *)
(***************************************************************************)
\* line 97
PleasePdf == "Please send only a PDF file."
\* line 102
Received == "File received. Processing..."
\* line 108
NoText == "No extractable text found."
\* the prefix shared by lines 52 and 114
ErrPrefix == "Error: "
\* line 52
ConfigError == ErrPrefix \o "OPENAI_API_KEY is not set."
\* lines 60-61
SysChunk == "You are an accurate and organized summarizer."
UserChunk == "Summarize this part of the text:\n\n"
\* line 67
Separator == "\n\n---\n\n"
\* lines 71-72
SysFinal == "Produce a final coherent summary with short headings."
UserFinal == "Turn these per-part summaries into one final summary:\n\n"

PdfMime == "application/pdf"
NoDocument == [present |-> FALSE, mime_type |-> ""]
Documents ==
    {NoDocument,
     [present |-> TRUE, mime_type |-> PdfMime],
     [present |-> TRUE, mime_type |-> "image/png"]}

\* a 25,000-character text whose three fragments differ
LongText == Rep("a", MAX_CHARS) \o Rep("b", MAX_CHARS) \o Rep("c", MAX_CHARS \div 2)
\* what extract_text can return; pdfminer ends every page with a form feed
Texts == {"", " \n", "\f", "\r\n\f", "ab", "ab\f", LongText}
\* message.content of the response to the k-th completion call of a request:
\* the answers to different calls differ, and come padded with whitespace
Contents(k) == {" S" \o ToString(k) \o "\n", "T" \o ToString(k) \o "\r\n"}
\* str(e) of the exceptions the collaborators raise
GetFileErrors == {"Invalid file_id"}
ReplyErrors == {"Timed out"}
DownloadErrors == {"404 Client Error"}
ExtractErrors == {"No /Root object"}
CreateErrors == {"Rate limit reached"}

Updates == 1..NumUpdates

VARIABLES ct_text, ct_max, ct_result, ct_pc,
          client, document, pc, running, text, chunks, partial_summaries,
          trace, tmpdir, escaped

ct_vars == <<ct_text, ct_max, ct_result, ct_pc>>

h_vars == <<client, document, pc, running, text, chunks, partial_summaries,
            trace, tmpdir, escaped>>

vars == <<ct_text, ct_max, ct_result, ct_pc,
          client, document, pc, running, text, chunks, partial_summaries,
          trace, tmpdir, escaped>>

(***************************************************************************)
(* The calls a handler makes on its collaborators are logged in trace[u],  *)
(* one record per call; the last record is the call in flight.             *)
(***************************************************************************)
Call(op, line, arg) == [op |-> op, line |-> line, arg |-> arg, st |-> "pending", val |-> ""]
ReplyCall(line, txt) == Call("reply_text", line, txt)
CreateCall(line, sys, user) ==
    [op |-> "create", line |-> line, sys |-> sys, arg |-> user, st |-> "pending", val |-> ""]
Settled(tr, st, val) == [tr EXCEPT ![Len(tr)].st = st, ![Len(tr)].val = val]

\* the handler returns (or an exception leaves it): the task is over and its
\* frame, the update and the log of its calls are dropped
finished(u) ==
    /\ pc' = [pc EXCEPT ![u] = "done"]
    /\ trace' = [trace EXCEPT ![u] = <<>>]
    /\ document' = [document EXCEPT ![u] = NoDocument]
    /\ text' = [text EXCEPT ![u] = ""]
    /\ chunks' = [chunks EXCEPT ![u] = <<>>]
    /\ partial_summaries' = [partial_summaries EXCEPT ![u] = <<>>]

\* main, lines 124-130: the application is built without concurrent_updates
\* and the handler is registered blocking, so an update is taken from the
\* queue only when the handler of the one before it has returned
dispatchable(u) == \A v \in Updates \ {u} : pc[v] \in {"new", "done"}

\* mutant: any document is accepted, whatever its media type
accepted_any(doc) == doc.present

\* line 96: not (not document or document.mime_type != "application/pdf")
accepted(doc) == doc.present /\ doc.mime_type = PdfMime

\* mutant: the text is tested without strip()
is_blank_nostrip(txt) == txt = ""

\* line 107: not text.strip()
is_blank(txt) == strip(txt) = ""

\* mutant: the credential check is gone
client_missing_never(c) == FALSE

\* line 51: not client
client_missing(c) == c = "None"

\* mutant: the directory is removed only when the block ends normally
with_exit_leak(how) == IF how = "exception" THEN "open" ELSE "released"

\* line 103: leaving the with block, normally, by return or by exception
with_exit(how) == "released"

\* mutant: the newest partial summary is put first
append_partial_front(partials, content) == <<strip(content)>> \o partials

\* line 65
append_partial(partials, content) == Append(partials, strip(content))

\* mutant: the loop ends after the first fragment
loop_done_first(cs, partials) == Len(partials) >= Min(1, Len(cs))

\* line 55: the for loop over chunks is exhausted
loop_done(cs, partials) == Len(partials) >= Len(cs)

\* lines 55-64 and 67-75: the next completion call of summarize_text
next_create(cs, partials) ==
    IF loop_done(cs, partials)
    THEN CreateCall(68, SysFinal, UserFinal \o join(Separator, partials))
    ELSE CreateCall(57, SysChunk, UserChunk \o cs[Len(partials) + 1])

\* mutant: the exception is not caught and leaves the handler
except_escape(u, tr, e) ==
    /\ trace' = [trace EXCEPT ![u] = <<>>]
    /\ pc' = [pc EXCEPT ![u] = "done"]
    /\ running' = 0
    /\ escaped' = [escaped EXCEPT ![u] = e]

\* lines 112-114: except Exception as e: reply_text(f"Error: {e}")
except(u, tr, e) ==
    /\ trace' = [trace EXCEPT ![u] = Append(tr, ReplyCall(114, ErrPrefix \o e))]
    /\ pc' = [pc EXCEPT ![u] = "await_reply_114"]
    /\ running' = 0
    /\ UNCHANGED escaped

\* lines 51-57 (67-68 when there is no fragment): summarize_text up to its
\* first completion call, or its early return and the reply of line 111
summarize_begin(u, tr, txt) ==
    IF client_missing(client)
    THEN /\ trace' = [trace EXCEPT ![u] = Append(tr, ReplyCall(111, ConfigError))]
         /\ pc' = [pc EXCEPT ![u] = "await_reply_111"]
         /\ running' = 0
         /\ UNCHANGED <<chunks, partial_summaries>>
    ELSE LET cs == chunk_text(txt, MAX_CHARS)
             c == next_create(cs, <<>>)
         IN  /\ chunks' = [chunks EXCEPT ![u] = cs]
             /\ partial_summaries' = [partial_summaries EXCEPT ![u] = <<>>]
             /\ trace' = [trace EXCEPT ![u] = Append(tr, c)]
             /\ pc' = [pc EXCEPT ![u] = IF c.line = 57 THEN "create_chunk" ELSE "create_final"]
             /\ running' = u

(***************************************************************************)
(* handle_document (lines 93-114) as a task of the event loop; the          *)
(* application runs the handlers of the queued updates one after the       *)
(* other.  A task                                                          *)
(* holds the loop's only thread (running = u) while it executes; at an     *)
(* await on the network (get_file, reply_text) it gives the thread back    *)
(* (running = 0); download_file, extract_text and                          *)
(* client.chat.completions.create are plain blocking calls, so the task    *)
(* keeps the thread until they return.                                     *)
(***************************************************************************)
HInit ==
    /\ client \in {"OpenAI", "None"}
    /\ document = [u \in Updates |-> NoDocument]
    /\ pc = [u \in Updates |-> "new"]
    /\ running = 0
    /\ text = [u \in Updates |-> ""]
    /\ chunks = [u \in Updates |-> <<>>]
    /\ partial_summaries = [u \in Updates |-> <<>>]
    /\ trace = [u \in Updates |-> <<>>]
    /\ tmpdir = [u \in Updates |-> "none"]
    /\ escaped = [u \in Updates |-> ""]

CtIdle ==
    /\ ct_text = ""
    /\ ct_max = 1
    /\ ct_result = <<>>
    /\ ct_pc = "idle"

Init == HInit /\ CtIdle

\* lines 94-100: the handler starts on an inbound update
Start(u) ==
    /\ pc[u] = "new"
    /\ running = 0
    /\ dispatchable(u)
    /\ \E doc \in Documents :
        /\ document' = [document EXCEPT ![u] = doc]
        /\ IF accepted(doc)
           THEN /\ trace' = [trace EXCEPT ![u] = <<Call("get_file", 100, "file_id")>>]
                /\ pc' = [pc EXCEPT ![u] = "await_get_file"]
           ELSE /\ trace' = [trace EXCEPT ![u] = <<ReplyCall(97, PleasePdf)>>]
                /\ pc' = [pc EXCEPT ![u] = "await_reply_97"]
    /\ UNCHANGED <<client, running, text, chunks, partial_summaries, tmpdir, escaped>>
    /\ UNCHANGED ct_vars

\* lines 97-98
Reply97Returns(u) ==
    /\ pc[u] = "await_reply_97"
    /\ running = 0
    /\ \/ UNCHANGED escaped
       \/ \E e \in ReplyErrors : escaped' = [escaped EXCEPT ![u] = e]
    /\ finished(u)
    /\ UNCHANGED <<client, running, tmpdir>>
    /\ UNCHANGED ct_vars

\* lines 100-102
GetFileReturns(u) ==
    /\ pc[u] = "await_get_file"
    /\ running = 0
    /\ \/ /\ trace' = [trace EXCEPT ![u] =
                          Append(Settled(@, "ok", "file_path"), ReplyCall(102, Received))]
          /\ pc' = [pc EXCEPT ![u] = "await_reply_102"]
          /\ UNCHANGED <<running, escaped>>
       \/ \E e \in GetFileErrors : except(u, Settled(trace[u], "raised", e), e)
    /\ UNCHANGED <<client, document, text, chunks, partial_summaries, tmpdir>>
    /\ UNCHANGED ct_vars

\* lines 102-105
Reply102Returns(u) ==
    /\ pc[u] = "await_reply_102"
    /\ running = 0
    /\ \/ /\ trace' = [trace EXCEPT ![u] =
                          Append(Settled(@, "ok", ""), Call("download_file", 105, "file_path"))]
          /\ tmpdir' = [tmpdir EXCEPT ![u] = "open"]
          /\ pc' = [pc EXCEPT ![u] = "download"]
          /\ running' = u
          /\ UNCHANGED escaped
       \/ /\ \E e \in ReplyErrors : except(u, Settled(trace[u], "raised", e), e)
          /\ UNCHANGED tmpdir
    /\ UNCHANGED <<client, document, text, chunks, partial_summaries>>
    /\ UNCHANGED ct_vars

\* lines 105-106 and 78-84
DownloadReturns(u) ==
    /\ pc[u] = "download"
    /\ running = u
    /\ \/ /\ trace' = [trace EXCEPT ![u] =
                          Append(Settled(@, "ok", ""), Call("extract_text", 106, "pdf_path"))]
          /\ pc' = [pc EXCEPT ![u] = "extract"]
          /\ UNCHANGED <<running, escaped, tmpdir>>
       \/ /\ \E e \in DownloadErrors : except(u, Settled(trace[u], "raised", e), e)
          /\ tmpdir' = [tmpdir EXCEPT ![u] = with_exit("exception")]
    /\ UNCHANGED <<client, document, text, chunks, partial_summaries>>
    /\ UNCHANGED ct_vars

\* lines 106-110 and 51-57
ExtractReturns(u) ==
    /\ pc[u] = "extract"
    /\ running = u
    /\ \/ \E txt \in Texts :
             LET tr == Settled(trace[u], "ok", txt)
             IN  /\ text' = [text EXCEPT ![u] = txt]
                 /\ IF is_blank(txt)
                    THEN /\ trace' = [trace EXCEPT ![u] = Append(tr, ReplyCall(108, NoText))]
                         /\ pc' = [pc EXCEPT ![u] = "await_reply_108"]
                         /\ running' = 0
                         /\ UNCHANGED <<chunks, partial_summaries>>
                    ELSE summarize_begin(u, tr, txt)
                 /\ UNCHANGED <<escaped, tmpdir>>
       \/ /\ \E e \in ExtractErrors : except(u, Settled(trace[u], "raised", e), e)
          /\ tmpdir' = [tmpdir EXCEPT ![u] = with_exit("exception")]
          /\ UNCHANGED <<text, chunks, partial_summaries>>
    /\ UNCHANGED <<client, document>>
    /\ UNCHANGED ct_vars

\* lines 108-109
Reply108Returns(u) ==
    /\ pc[u] = "await_reply_108"
    /\ running = 0
    /\ \/ /\ tmpdir' = [tmpdir EXCEPT ![u] = with_exit("return")]
          /\ finished(u)
          /\ UNCHANGED <<running, escaped>>
       \/ /\ \E e \in ReplyErrors : except(u, Settled(trace[u], "raised", e), e)
          /\ tmpdir' = [tmpdir EXCEPT ![u] = with_exit("exception")]
          /\ UNCHANGED <<document, text, chunks, partial_summaries>>
    /\ UNCHANGED client
    /\ UNCHANGED ct_vars

\* lines 57-65, then the next call of the loop or the call of line 68
ChunkCreateReturns(u) ==
    /\ pc[u] = "create_chunk"
    /\ running = u
    /\ \/ \E content \in Contents(Len(partial_summaries[u]) + 1) :
             LET ps == append_partial(partial_summaries[u], content)
                 c == next_create(chunks[u], ps)
             IN  /\ partial_summaries' = [partial_summaries EXCEPT ![u] = ps]
                 /\ trace' = [trace EXCEPT ![u] = Append(Settled(@, "ok", content), c)]
                 /\ pc' = [pc EXCEPT ![u] =
                              IF c.line = 57 THEN "create_chunk" ELSE "create_final"]
                 /\ UNCHANGED <<running, escaped, tmpdir>>
       \/ /\ \E e \in CreateErrors : except(u, Settled(trace[u], "raised", e), e)
          /\ tmpdir' = [tmpdir EXCEPT ![u] = with_exit("exception")]
          /\ UNCHANGED partial_summaries
    /\ UNCHANGED <<client, document, text, chunks>>
    /\ UNCHANGED ct_vars

\* lines 68-76 and 110-111
FinalCreateReturns(u) ==
    /\ pc[u] = "create_final"
    /\ running = u
    /\ \/ /\ \E content \in Contents(Len(partial_summaries[u]) + 1) :
                trace' = [trace EXCEPT ![u] =
                             Append(Settled(@, "ok", content), ReplyCall(111, strip(content)))]
          /\ pc' = [pc EXCEPT ![u] = "await_reply_111"]
          /\ running' = 0
          /\ UNCHANGED <<escaped, tmpdir>>
       \/ /\ \E e \in CreateErrors : except(u, Settled(trace[u], "raised", e), e)
          /\ tmpdir' = [tmpdir EXCEPT ![u] = with_exit("exception")]
    /\ UNCHANGED <<client, document, text, chunks, partial_summaries>>
    /\ UNCHANGED ct_vars

\* line 111 and the end of the with block
Reply111Returns(u) ==
    /\ pc[u] = "await_reply_111"
    /\ running = 0
    /\ \/ /\ tmpdir' = [tmpdir EXCEPT ![u] = with_exit("end")]
          /\ finished(u)
          /\ UNCHANGED <<running, escaped>>
       \/ /\ \E e \in ReplyErrors : except(u, Settled(trace[u], "raised", e), e)
          /\ tmpdir' = [tmpdir EXCEPT ![u] = with_exit("exception")]
          /\ UNCHANGED <<document, text, chunks, partial_summaries>>
    /\ UNCHANGED client
    /\ UNCHANGED ct_vars

\* line 114
Reply114Returns(u) ==
    /\ pc[u] = "await_reply_114"
    /\ running = 0
    /\ \/ UNCHANGED escaped
       \/ \E e \in ReplyErrors : escaped' = [escaped EXCEPT ![u] = e]
    /\ finished(u)
    /\ UNCHANGED <<client, running, tmpdir>>
    /\ UNCHANGED ct_vars

Step(u) ==
    \/ Start(u)
    \/ Reply97Returns(u)
    \/ GetFileReturns(u)
    \/ Reply102Returns(u)
    \/ DownloadReturns(u)
    \/ ExtractReturns(u)
    \/ Reply108Returns(u)
    \/ ChunkCreateReturns(u)
    \/ FinalCreateReturns(u)
    \/ Reply111Returns(u)
    \/ Reply114Returns(u)

Next ==
    \/ \E u \in Updates : Start(u)
    \/ \E u \in Updates : Reply97Returns(u)
    \/ \E u \in Updates : GetFileReturns(u)
    \/ \E u \in Updates : Reply102Returns(u)
    \/ \E u \in Updates : DownloadReturns(u)
    \/ \E u \in Updates : ExtractReturns(u)
    \/ \E u \in Updates : Reply108Returns(u)
    \/ \E u \in Updates : ChunkCreateReturns(u)
    \/ \E u \in Updates : FinalCreateReturns(u)
    \/ \E u \in Updates : Reply111Returns(u)
    \/ \E u \in Updates : Reply114Returns(u)

Spec == Init /\ [][Next]_vars

(***************************************************************************)
(* SpecChunk: chunk_text applied to every bounded text and positive        *)
(* max_chars.                                                              *)
(***************************************************************************)
ChunkInit ==
    /\ ct_text \in Strs(MaxLen)
    /\ ct_max \in 1..MaxM
    /\ ct_result = <<>>
    /\ ct_pc = "call"
    /\ HInit

ChunkCall ==
    /\ ct_pc = "call"
    /\ ct_result' = chunk_text(ct_text, ct_max)
    /\ ct_pc' = "returned"
    /\ UNCHANGED <<ct_text, ct_max>>
    /\ UNCHANGED h_vars

SpecChunk == ChunkInit /\ [][ChunkCall]_vars

\* C1: for every Text and positive max_chars the fragments of chunk_text,
\* concatenated in order, equal Text, and every fragment is at most
\* max_chars long.
C1_LosslessBounded ==
    ct_pc = "returned" =>
        /\ Concat(ct_result) = ct_text
        /\ \A i \in 1..Len(ct_result) : Len(ct_result[i]) <= ct_max

C1_Witness ==
    /\ ct_pc = "returned"
    /\ Len(ct_result) = 3
    /\ Len(ct_result[3]) < ct_max

\* C9 as stated: for every Text with max_chars >= length(Text) there is
\* exactly one fragment, the whole Text.
C9_Original ==
    (ct_pc = "returned" /\ ct_max >= Len(ct_text)) => ct_result = <<ct_text>>

\* C9 amended: for every non-empty Text with max_chars >= length(Text)
\* there is exactly one fragment, the whole Text; the empty Text gives no
\* fragment.
C9_SingleFragment ==
    (ct_pc = "returned" /\ ct_max >= Len(ct_text)) =>
        IF ct_text = "" THEN ct_result = <<>> ELSE ct_result = <<ct_text>>

C9_Witness ==
    /\ ct_pc = "returned"
    /\ ct_max >= Len(ct_text)
    /\ Len(ct_text) = 3
    /\ ct_result = <<ct_text>>

(***************************************************************************)
(* Properties of handle_document and summarize_text, under Spec.           *)
(***************************************************************************)
Creates(tr) == SelectSeq(tr, LAMBDA c : c.op = "create")
RepliesAt(tr, line) == SelectSeq(tr, LAMBDA c : c.op = "reply_text" /\ c.line = line)
Raised(tr, op) == {i \in 1..Len(tr) : tr[i].op = op /\ tr[i].st = "raised"}
StepOps == {"get_file", "download_file", "extract_text", "create"}
Lens(parts) == [i \in 1..Len(parts) |-> Len(parts[i])]

\* C2: with a configured client and N fragments, the completion calls of a
\* summarize_text run are the N per-fragment calls, in fragment order and one
\* at a time, followed by one final call that starts only when all N have
\* returned: N+1 calls when summarize_text returns (25,000 characters: fragments
\* of 10,000/10,000/5,000 and 4 calls).
C2_CallSequence ==
    \A u \in Updates :
        LET cr == Creates(trace[u])
            n == Len(chunks[u])
        IN  /\ Len(cr) <= n + 1
            /\ \A i \in 1..Len(cr) :
                  /\ i <= n => /\ cr[i].line = 57
                               /\ cr[i].arg = UserChunk \o chunks[u][i]
                  /\ i = n + 1 => cr[i].line = 68
                  /\ i < Len(cr) => cr[i].st = "ok"
            /\ pc[u] = "create_chunk" => Len(cr) = Len(partial_summaries[u]) + 1
            /\ pc[u] = "create_final" => Len(cr) = n + 1
            /\ (pc[u] = "await_reply_111" /\ client = "OpenAI") =>
                  /\ Len(cr) = n + 1
                  /\ cr[n + 1].st = "ok"
            /\ (client = "OpenAI" /\ Len(text[u]) = 25000) =>
                  /\ Lens(chunks[u]) = <<10000, 10000, 5000>>
                  /\ pc[u] = "await_reply_111" => Len(cr) = 4

C2_Witness ==
    \E u \in Updates :
        /\ pc[u] = "await_reply_111"
        /\ Len(text[u]) = 25000
        /\ Len(Creates(trace[u])) = 4

\* C3: when the final reduction call is made there are as many partial
\* summaries as fragments, the i-th one is the (stripped) result of the call
\* made for the i-th fragment, and the final prompt joins them in that order.
C3_PartialsInOrder ==
    \A u \in Updates :
        pc[u] = "create_final" =>
            LET cr == Creates(trace[u])
                n == Len(chunks[u])
            IN  /\ Len(partial_summaries[u]) = n
                /\ Len(cr) = n + 1
                /\ \A i \in 1..n :
                      /\ cr[i].arg = UserChunk \o chunks[u][i]
                      /\ partial_summaries[u][i] = strip(cr[i].val)
                /\ cr[n + 1].arg =
                      UserFinal \o join(Separator, [i \in 1..n |-> strip(cr[i].val)])

C3_Witness ==
    \E u \in Updates :
        /\ pc[u] = "create_final"
        /\ Len(chunks[u]) = 3
        /\ Len(partial_summaries[u]) = 3

\* C4: without a client summarize_text makes no completion call and returns
\* the configuration-error text, which reaches the user as the reply of line
\* 111 with no exception raised; a completion call that fails is an exception
\* and reaches the user through line 114 as "Error: <e>", a different reply.
C4_ConfigError ==
    \A u \in Updates :
        /\ client = "None" =>
              /\ Creates(trace[u]) = <<>>
              /\ pc[u] \notin {"create_chunk", "create_final"}
              /\ pc[u] = "await_reply_111" =>
                    /\ trace[u][Len(trace[u])] = ReplyCall(111, ConfigError)
                    /\ \A i \in 1..Len(trace[u]) : trace[u][i].st # "raised"
                    /\ RepliesAt(trace[u], 114) = <<>>
        /\ \A i \in Raised(trace[u], "create") :
              /\ client = "OpenAI"
              /\ i + 1 = Len(trace[u])
              /\ trace[u][i + 1] = ReplyCall(114, ErrPrefix \o trace[u][i].val)
              /\ trace[u][i + 1].arg # ConfigError
              /\ RepliesAt(trace[u], 111) = <<>>

C4_Witness ==
    \E u \in Updates :
        /\ client = "None"
        /\ pc[u] = "await_reply_111"
        /\ text[u] = "ab"

\* C5: an exception raised by get_file, download_file, extract_text or a
\* completion call is caught: the next call of the handler is the error reply
\* "Error: <e>" of line 114, no completion call and no summary reply follows or
\* precedes it, and the exception never leaves the handler.
C5_ExceptionCaught ==
    \A u \in Updates :
        /\ \A i \in 1..Len(trace[u]) :
              (trace[u][i].op \in StepOps /\ trace[u][i].st = "raised") =>
                  /\ pc[u] = "await_reply_114"
                  /\ i + 1 = Len(trace[u])
                  /\ trace[u][i + 1] = ReplyCall(114, ErrPrefix \o trace[u][i].val)
                  /\ RepliesAt(trace[u], 111) = <<>>
        /\ escaped[u] \notin
              (GetFileErrors \cup DownloadErrors \cup ExtractErrors \cup CreateErrors)

C5_Witness ==
    \E u \in Updates :
        /\ pc[u] = "await_reply_114"
        /\ Len(partial_summaries[u]) = 2
        /\ Raised(trace[u], "create") # {}

\* C6: the temporary directory is open only inside the with block; it is
\* released when the handler is done and already when the error reply is
\* sent, in particular after download_file raised.
C6_TempReleased ==
    \A u \in Updates :
        /\ tmpdir[u] = "open" =>
              pc[u] \in {"download", "extract", "create_chunk", "create_final",
                         "await_reply_108", "await_reply_111"}
        /\ pc[u] \in {"download", "extract", "create_chunk", "create_final",
                      "await_reply_108", "await_reply_111"} => tmpdir[u] = "open"
        /\ \A i \in 1..Len(trace[u]) :
              (trace[u][i].op \in {"download_file", "extract_text", "create"}
               \/ (trace[u][i].op = "reply_text" /\ trace[u][i].line \in {108, 111})) =>
                  (trace[u][i].st = "raised" =>
                      /\ tmpdir[u] = "released"
                      /\ trace[u][Len(trace[u])] =
                            ReplyCall(114, ErrPrefix \o trace[u][i].val))

C6_Witness ==
    \E u \in Updates :
        /\ Raised(trace[u], "download_file") # {}
        /\ tmpdir[u] = "released"
        /\ pc[u] = "await_reply_114"

\* C7: for an update without document or with a document that is not
\* application/pdf the handler makes one call, the reply of line 97, and
\* nothing else: no get_file, no download, no temporary directory, no
\* extraction, no completion call.
NotAPdf(doc) == ~doc.present \/ doc.mime_type # "application/pdf"

C7_NonPdfRejected ==
    \A u \in Updates :
        /\ (pc[u] \notin {"new", "done"} /\ NotAPdf(document[u])) =>
              /\ pc[u] = "await_reply_97"
              /\ trace[u] = <<ReplyCall(97, PleasePdf)>>
              /\ tmpdir[u] = "none"
        /\ pc[u] = "await_reply_97" => NotAPdf(document[u])

C7_Witness ==
    \E u \in Updates :
        /\ pc[u] = "await_reply_97"
        /\ document[u].present
        /\ document[u].mime_type # PdfMime

BlankExtracted(tr) ==
    \E i \in 1..Len(tr) : tr[i].op = "extract_text" /\ tr[i].st = "ok" /\ strip(tr[i].val) = ""

\* C8 as stated: after an empty or whitespace-only extraction the handler
\* sends the notice of line 108, makes no completion call and sends neither a
\* summary reply nor an error reply.
C8_Original ==
    \A u \in Updates :
        BlankExtracted(trace[u]) =>
            /\ Len(RepliesAt(trace[u], 108)) = 1
            /\ Creates(trace[u]) = <<>>
            /\ RepliesAt(trace[u], 111) = <<>>
            /\ RepliesAt(trace[u], 114) = <<>>

\* C8 amended: after an empty or whitespace-only extraction the handler sends
\* the notice of line 108, makes no completion call and sends no summary
\* reply; it sends an error reply only when the notice reply itself raised,
\* and then with that exception's description.
C8_BlankNotice ==
    \A u \in Updates :
        BlankExtracted(trace[u]) =>
            LET tr == trace[u]
                k == CHOOSE i \in 1..Len(tr) : tr[i].op = "extract_text"
            IN  /\ Len(tr) > k
                /\ tr[k + 1].op = "reply_text" /\ tr[k + 1].line = 108
                /\ tr[k + 1].arg = NoText
                /\ Creates(tr) = <<>>
                /\ RepliesAt(tr, 111) = <<>>
                /\ IF tr[k + 1].st = "raised"
                   THEN /\ Len(tr) = k + 2
                        /\ tr[k + 2] = ReplyCall(114, ErrPrefix \o tr[k + 1].val)
                   ELSE Len(tr) = k + 1

C8_Witness ==
    \E u \in Updates :
        /\ pc[u] = "await_reply_108"
        /\ text[u] = "\r\n\f"
        /\ Creates(trace[u]) = <<>>

\* C10 as stated: the file download and every completion call is a
\* suspension point: while a handler waits for download_file or for a
\* completion call it has given the thread back to the event loop, which can
\* run a step of the handler of another inbound update.
C10_Suspension ==
    \A u, v \in Updates :
        (/\ u # v
         /\ pc[u] \in {"download", "create_chunk", "create_final"}
         /\ pc[v] # "done") =>
            /\ running # u
            /\ ENABLED Step(v)

\* What the code gives: handlers never overlap, and the thread is free
\* exactly while the handler in progress is at an awaited call (get_file,
\* reply_text).
OneHandlerAtATime ==
    /\ \A u, v \in Updates : (u # v /\ pc[u] \notin {"new", "done"}) => pc[v] \in {"new", "done"}
    /\ \A u \in Updates :
          /\ pc[u] \in {"download", "extract", "create_chunk", "create_final"} => running = u
          /\ pc[u] \in {"await_get_file", "await_reply_97", "await_reply_102",
                        "await_reply_108", "await_reply_111", "await_reply_114"} => running = 0
====
